---- MODULE Spec2Model ----
(***************************************************************************)
(* DynamicIndexer: the PID-file job guard of app.py (_running / _spawn),   *)
(* the jobs it launches (authLooperBackend.py, indexLooper.py,             *)
(* run_both.py), and the block lease engine with its expiry sweeper.       *)
(***************************************************************************)
EXTENDS Integers, Naturals, Sequences, FiniteSets, TLC

(***************************************************************************)
(* Bounds                                                                  *)
(***************************************************************************)
\* number of jobs the request handlers of app.py spawn in one run
MaxPid == 2

Pids == 1..MaxPid

\* last instant of the clock of the lease engine
MaxTime == 3

\* block ids, wallets and concurrent callers of the lease engine
Blocks == {100, 101}
Holders == {"w1", "w2"}
Callers == {"c1", "c2"}

\* request workers of the Flask application (each request runs on its own)
Workers == {"w1", "w2"}

\* longest "blocks" list of a bulk_enqueue request
MaxBlocks == 2

\* heights the chain grows by while the block watcher runs
MaxHeight == 3

Heights == 1..MaxHeight

(***************************************************************************)
(* Program constants                                                       *)
(***************************************************************************)
AUTH_LOCK == "/tmp/authscript.lock"
INDEX_LOCK == "/tmp/indexscript.lock"
BOTH_LOCK == "/tmp/runboth.lock"

Locks == {AUTH_LOCK, INDEX_LOCK, BOTH_LOCK}

AUTH_SCRIPT == "authLooperBackend.py"
INDEX_SCRIPT == "indexLooper.py"
BOTH_SCRIPT == "run_both.py"

\* marker file content: NoFile when the path does not exist, else the pid text
NoFile == 0

\* the lease window, in clock units of 60,000 ms (120,000 ms)
HOLD_DURATION == 2

\* lease_expiry of a record that has none (indefinite hold, or no hold)
NoLease == -1

\* holder of a record that has none
NoHolder == ""

VARIABLES
    marker,          \* [Locks -> {NoFile} \cup Pids]: the lock files under /tmp
    pstate,          \* [Pids -> "unused" | "running" | "zombie" | "reaped"]:
                     \*   the processes _spawn started, by proc.pid
    pscript,         \* [Pids -> script a running process executes, "" else]
    nextPid,         \* pid of the next process _spawn starts
    wpc,             \* [Workers -> "idle" | "popen" | "write"]: the statement
                     \*   of _spawn the worker's request is to execute next
    wlock,           \* [Workers -> lock of the request being handled]
    wpid,            \* [Workers -> proc.pid of the request's Popen, 0 if none]
    rbpc,            \* [Pids -> position of a run_both process in main()]
    rbchild,         \* [Pids -> "none" | "running"]: the child process a
                     \*   run_both process started with run()
    ev,              \* what the last step did and returned, when it was a
                     \*   statement of _spawn or the exit of a job; NoEv else
    rec,             \* [Blocks -> block record]: the shared store
    now,             \* the clock
    rpc,             \* [Callers -> "idle" | "write"]: position in Reserve
    rarg,            \* [Callers -> arguments of the Reserve in flight]
    sweepPc,         \* "idle" | "reclaim": position in SweepExpired
    sweepNow,        \* the `now` SweepExpired was called with
    sweepTodo,       \* records its scan returned, not yet written
    sweepCount,      \* records it has reclaimed so far
    grant,           \* [Blocks -> the lease last granted on the block, while
                     \*   its window is open and nobody released or patched
                     \*   the block; NoGrant else]
    sweepClean,      \* no reservation committed since the sweep began
    lastSweep,       \* now and count of the sweep that returned last, while
                     \*   no reservation has committed since it began
    prevSweep,       \* lastSweep as the sweep that followed it found it
    queue,           \* [QueueKeys -> status of the row of bulkInscribeQueue1
                     \*   with that block_number, NoRow if it has none]
    bw,              \* [Workers -> the bulk request the worker is handling]
    bev,             \* what the last step of a bulk request did; NoEv else
    ownerCache,      \* [Iids -> what lru_cache holds for _owner_cached(iid),
                     \*   Miss if nothing]
    ow,              \* [Workers -> the owner lookup the worker is handling]
    oev,             \* the response an owner lookup has just sent; NoEv else
    chain,           \* height of the chain tip, above the watcher's start
    table,           \* [Heights -> the row of dynamicIndex1 for the height,
                     \*   NoItem if it has none]
    STATE_FILE,      \* the height in state/last_height.txt
    bwat,            \* position and locals of blockWatcher's main()
    wev              \* what the last step of the watcher did; NoEv else

guardVars == <<marker, pstate, pscript, nextPid, wpc, wlock, wpid,
               rbpc, rbchild, ev>>

leaseVars == <<rec, now, rpc, rarg, sweepPc, sweepNow, sweepTodo, sweepCount,
               grant, sweepClean, lastSweep, prevSweep>>

bulkVars == <<queue, bw, bev>>

ownerVars == <<ownerCache, ow, oev>>

watcherVars == <<chain, table, STATE_FILE, bwat, wev>>

vars == <<guardVars, leaseVars, bulkVars, ownerVars, watcherVars>>

otherThanGuard == <<leaseVars, bulkVars, ownerVars, watcherVars>>

otherThanLease == <<guardVars, bulkVars, ownerVars, watcherVars>>

otherThanBulk == <<guardVars, leaseVars, ownerVars, watcherVars>>

otherThanOwner == <<guardVars, leaseVars, bulkVars, watcherVars>>

otherThanWatcher == <<guardVars, leaseVars, bulkVars, ownerVars>>

NoEv == [op |-> "none"]

(***************************************************************************)
(* Routes of app.py: which script and lock each start request names        *)
(***************************************************************************)
ScriptOf(lock) ==
    IF lock = AUTH_LOCK THEN AUTH_SCRIPT
    ELSE IF lock = INDEX_LOCK THEN INDEX_SCRIPT
    ELSE BOTH_SCRIPT

\* the lock a job of _spawn was started under
LockOf(script) ==
    IF script = AUTH_SCRIPT THEN AUTH_LOCK
    ELSE IF script = INDEX_SCRIPT THEN INDEX_LOCK
    ELSE BOTH_LOCK

\* the lock file a script removes at exit (its LOCK_FILE), "" if it has none
LOCK_FILE(script) ==
    IF script = AUTH_SCRIPT THEN AUTH_LOCK
    ELSE IF script = INDEX_SCRIPT THEN INDEX_LOCK
    ELSE ""

\* the state of /proc/<pid> as _running can observe it
ProcState(pid) == IF pid = NoFile THEN "none" ELSE pstate[pid]

(***************************************************************************)
(* Faulty variants of _running, used to show that the guard properties     *)
(* below depend on it.                                                     *)
(***************************************************************************)
\* any existing marker is taken for stale: the liveness test is inverted
running_live_is_stale(lock, readable) ==
    IF marker[lock] = NoFile
        THEN [ret |-> FALSE, unlink |-> FALSE]
        ELSE [ret |-> FALSE, unlink |-> TRUE]

\* the except branch returns False without p.unlink(missing_ok=True)
running_no_unlink(lock, readable) ==
    LET pid == marker[lock] IN
    IF pid = NoFile
        THEN [ret |-> FALSE, unlink |-> FALSE]
    ELSE IF ProcState(pid) \notin {"running", "zombie"}
        THEN [ret |-> FALSE, unlink |-> FALSE]
    ELSE IF ~readable
        THEN [ret |-> FALSE, unlink |-> FALSE]
    ELSE IF ProcState(pid) = "zombie"
        THEN [ret |-> FALSE, unlink |-> FALSE]
    ELSE [ret |-> TRUE, unlink |-> FALSE]

\* the "State: Z" test is missing: /proc/<pid> existing is enough
running_no_zombie_test(lock, readable) ==
    LET pid == marker[lock] IN
    IF pid = NoFile
        THEN [ret |-> FALSE, unlink |-> FALSE]
    ELSE IF ProcState(pid) \notin {"running", "zombie"}
        THEN [ret |-> FALSE, unlink |-> TRUE]
    ELSE IF ~readable
        THEN [ret |-> FALSE, unlink |-> TRUE]
    ELSE [ret |-> TRUE, unlink |-> FALSE]

(***************************************************************************)
(* _running(lock): the result, and whether the marker is unlinked.         *)
(* readable: whether (proc / "status").read_text() succeeds.               *)
(***************************************************************************)
_running(lock, readable) ==
    LET pid == marker[lock] IN
    IF pid = NoFile
        THEN [ret |-> FALSE, unlink |-> FALSE]
    ELSE IF ProcState(pid) \notin {"running", "zombie"}
        THEN [ret |-> FALSE, unlink |-> TRUE]
    ELSE IF ~readable
        THEN [ret |-> FALSE, unlink |-> TRUE]
    ELSE IF ProcState(pid) = "zombie"
        THEN [ret |-> FALSE, unlink |-> TRUE]
    ELSE [ret |-> TRUE, unlink |-> FALSE]

(***************************************************************************)
(* Initial state: no lock file, no job, every worker idle                  *)
(***************************************************************************)
InitGuard ==
    /\ marker = [l \in Locks |-> NoFile]
    /\ pstate = [p \in Pids |-> "unused"]
    /\ pscript = [p \in Pids |-> ""]
    /\ nextPid = 1
    /\ wpc = [w \in Workers |-> "idle"]
    /\ wlock = [w \in Workers |-> AUTH_LOCK]
    /\ wpid = [w \in Workers |-> 0]
    /\ rbpc = [p \in Pids |-> "none"]
    /\ rbchild = [p \in Pids |-> "none"]
    /\ ev = NoEv

(***************************************************************************)
(* A start request arrives for an idle worker: run_auth / run_index /      *)
(* run_both call _spawn(script, lock, env_var), whose first statement is   *)
(* "if _running(lock): return busy, 409"                                   *)
(***************************************************************************)
spawn_running(w, lock, readable) ==
    /\ wpc[w] = "idle"
    \* (proc / "status").read_text() is reached only when proc.exists()
    /\ IF ProcState(marker[lock]) \in {"running", "zombie"} THEN TRUE
       ELSE readable
    /\ LET r == _running(lock, readable) IN
        \* a request that goes on to Popen arrives only while a pid is left
        \* for it
        /\ IF r.ret THEN TRUE
           ELSE nextPid + Cardinality({v \in Workers : wpc[v] = "popen"})
                    <= MaxPid
        /\ marker' = IF r.unlink THEN [marker EXCEPT ![lock] = NoFile]
                     ELSE marker
        /\ IF r.ret
              THEN /\ wpc' = wpc
                   /\ wlock' = wlock
              ELSE /\ wpc' = [wpc EXCEPT ![w] = "popen"]
                   /\ wlock' = [wlock EXCEPT ![w] = lock]
        /\ ev' = [op |-> "_running", w |-> w, lock |-> lock,
                  pid |-> marker[lock], found |-> ProcState(marker[lock]),
                  readable |-> readable, ret |-> r.ret,
                  status |-> IF r.ret THEN "busy" ELSE "none"]
    /\ UNCHANGED <<pstate, pscript, nextPid, wpid, rbpc, rbchild>>
    /\ UNCHANGED otherThanGuard

(***************************************************************************)
(* _spawn, second statement: proc = subprocess.Popen([python, script])     *)
(***************************************************************************)
spawn_Popen(w) ==
    /\ wpc[w] = "popen"
    /\ nextPid <= MaxPid
    /\ pstate' = [pstate EXCEPT ![nextPid] = "running"]
    /\ pscript' = [pscript EXCEPT ![nextPid] = ScriptOf(wlock[w])]
    /\ rbpc' = [rbpc EXCEPT ![nextPid] =
                  IF ScriptOf(wlock[w]) = BOTH_SCRIPT THEN "run_auth" ELSE "none"]
    /\ wpid' = [wpid EXCEPT ![w] = nextPid]
    /\ nextPid' = nextPid + 1
    /\ wpc' = [wpc EXCEPT ![w] = "write"]
    /\ ev' = [op |-> "Popen", w |-> w, lock |-> wlock[w], pid |-> nextPid]
    /\ UNCHANGED <<marker, wlock, rbchild>>
    /\ UNCHANGED otherThanGuard

(***************************************************************************)
(* _spawn, last statements: Path(lock).write_text(str(proc.pid));          *)
(* return started, 202                                                     *)
(***************************************************************************)
spawn_write_text(w) ==
    /\ wpc[w] = "write"
    /\ marker' = [marker EXCEPT ![wlock[w]] = wpid[w]]
    /\ wpc' = [wpc EXCEPT ![w] = "idle"]
    /\ wlock' = [wlock EXCEPT ![w] = AUTH_LOCK]
    /\ wpid' = [wpid EXCEPT ![w] = 0]
    /\ ev' = [op |-> "write_text", w |-> w, lock |-> wlock[w], pid |-> wpid[w],
              status |-> "started"]
    /\ UNCHANGED <<pstate, pscript, nextPid, rbpc, rbchild>>
    /\ UNCHANGED otherThanGuard

(***************************************************************************)
(* authLooperBackend.py / indexLooper.py, started by _spawn, reach the end *)
(* of main(): the atexit hook removes LOCK_FILE if it exists (whatever pid *)
(* it names); app.py never waits for the Popen, so the process stays a     *)
(* zombie until it is reaped.                                              *)
(***************************************************************************)
atexit_cleanup(p) ==
    /\ pstate[p] = "running"
    /\ pscript[p] \in {AUTH_SCRIPT, INDEX_SCRIPT}
    /\ marker' = [marker EXCEPT ![LOCK_FILE(pscript[p])] = NoFile]
    /\ pstate' = [pstate EXCEPT ![p] = "zombie"]
    /\ pscript' = [pscript EXCEPT ![p] = ""]
    /\ ev' = [op |-> "exit", pid |-> p, script |-> pscript[p]]
    /\ UNCHANGED <<nextPid, wpc, wlock, wpid, rbpc, rbchild>>
    /\ UNCHANGED otherThanGuard

(***************************************************************************)
(* A job started by _spawn is killed (SIGKILL, OOM): no atexit hook runs,  *)
(* the marker stays as it is.  A child started by a killed run_both        *)
(* process keeps running; a child that had already exited is reaped by     *)
(* init.                                                                   *)
(***************************************************************************)
Crash(p) ==
    /\ pstate[p] = "running"
    /\ pstate' = [pstate EXCEPT ![p] = "zombie"]
    /\ rbpc' = [rbpc EXCEPT ![p] =
                  IF rbchild[p] = "running" THEN rbpc[p]
                  ELSE IF rbpc[p] = "none" THEN "none" ELSE "done"]
    /\ pscript' = [pscript EXCEPT ![p] = ""]
    /\ ev' = NoEv
    /\ UNCHANGED <<marker, nextPid, wpc, wlock, wpid, rbchild>>
    /\ UNCHANGED otherThanGuard

(***************************************************************************)
(* A zombie job is reaped: app.py never calls wait() on the Popen of       *)
(* _spawn; the interpreter polls abandoned children at a later Popen.      *)
(* /proc/<pid> is gone from then on.                                       *)
(***************************************************************************)
Reap(p) ==
    /\ pstate[p] = "zombie"
    /\ pstate' = [pstate EXCEPT ![p] = "reaped"]
    /\ ev' = NoEv
    /\ UNCHANGED <<marker, pscript, nextPid, wpc, wlock, wpid, rbpc, rbchild>>
    /\ UNCHANGED otherThanGuard

(***************************************************************************)
(* run_both.py.  Its children are started with run(), not by _spawn: no    *)
(* marker ever names them, so they are kept with their parent.  ENV gives  *)
(* them AUTH_LOCK_FILE and INDEX_LOCK_FILE, so each removes its lock file  *)
(* at exit like a job of _spawn does.                                      *)
(***************************************************************************)
\* the script of the child a run_both process at position pc has started
ChildScript(pc) ==
    IF pc = "wait_auth" THEN AUTH_SCRIPT
    ELSE IF pc = "wait_index" THEN INDEX_SCRIPT
    ELSE ""

\* run(script): proc = subprocess.Popen([python, script], env=ENV)
run(p, next) ==
    /\ pstate[p] = "running"
    /\ rbchild' = [rbchild EXCEPT ![p] = "running"]
    /\ rbpc' = [rbpc EXCEPT ![p] = next]
    /\ ev' = NoEv
    /\ UNCHANGED <<marker, pstate, pscript, nextPid, wpc, wlock, wpid>>
    /\ UNCHANGED otherThanGuard

\* proc.wait(): the child ends, by reaching the end of its main() (cleanup:
\* its atexit hook removes its LOCK_FILE) or by being killed (no hook runs),
\* and wait() returns in the parent
wait(p, cleanup, next) ==
    /\ pstate[p] = "running"
    /\ rbchild[p] = "running"
    /\ marker' = IF cleanup
                 THEN [marker EXCEPT ![LOCK_FILE(ChildScript(rbpc[p]))] = NoFile]
                 ELSE marker
    /\ rbchild' = [rbchild EXCEPT ![p] = "none"]
    /\ rbpc' = [rbpc EXCEPT ![p] = next]
    /\ ev' = NoEv
    /\ UNCHANGED <<pstate, pscript, nextPid, wpc, wlock, wpid>>
    /\ UNCHANGED otherThanGuard

\* the child of a run_both process that was killed ends, with or without its
\* atexit hook; nobody waits for it
orphan_exit(p, cleanup) ==
    /\ pstate[p] # "running"
    /\ rbchild[p] = "running"
    /\ marker' = IF cleanup
                 THEN [marker EXCEPT ![LOCK_FILE(ChildScript(rbpc[p]))] = NoFile]
                 ELSE marker
    /\ rbchild' = [rbchild EXCEPT ![p] = "none"]
    /\ rbpc' = [rbpc EXCEPT ![p] = "done"]
    /\ ev' = NoEv
    /\ UNCHANGED <<pstate, pscript, nextPid, wpc, wlock, wpid>>
    /\ UNCHANGED otherThanGuard

\* main(), "p = run(AUTH)"
main_run_auth(p) ==
    /\ rbpc[p] = "run_auth"
    /\ run(p, "wait_auth")

\* main(), "p.wait()"
main_wait_auth(p, cleanup) ==
    /\ rbpc[p] = "wait_auth"
    /\ wait(p, cleanup, "wait_for_lock")

\* wait_for_lock(AUTH_LOCK): leaves the loop once the path does not exist
wait_for_lock(p) ==
    /\ rbpc[p] = "wait_for_lock"
    /\ pstate[p] = "running"
    /\ marker[AUTH_LOCK] = NoFile
    /\ rbpc' = [rbpc EXCEPT ![p] = "run_index"]
    /\ ev' = NoEv
    /\ UNCHANGED <<marker, pstate, pscript, nextPid, wpc, wlock, wpid, rbchild>>
    /\ UNCHANGED otherThanGuard

\* main(), "run(INDEX)"
main_run_index(p) ==
    /\ rbpc[p] = "run_index"
    /\ run(p, "wait_index")

\* main(), ".wait()" on the index child
main_wait_index(p, cleanup) ==
    /\ rbpc[p] = "wait_index"
    /\ wait(p, cleanup, "exit")

\* main() returns and the interpreter exits: run_both.py registers no exit
\* hook and never reads RUN_BOTH_LOCK_FILE, so no file is touched
main_return(p) ==
    /\ rbpc[p] = "exit"
    /\ pstate[p] = "running"
    /\ pstate' = [pstate EXCEPT ![p] = "zombie"]
    /\ pscript' = [pscript EXCEPT ![p] = ""]
    /\ rbpc' = [rbpc EXCEPT ![p] = "done"]
    /\ ev' = [op |-> "exit", pid |-> p, script |-> pscript[p]]
    /\ UNCHANGED <<marker, nextPid, wpc, wlock, wpid, rbchild>>
    /\ UNCHANGED otherThanGuard

NextGuard ==
    \/ \E w \in Workers, lock \in Locks, readable \in BOOLEAN :
          spawn_running(w, lock, readable)
    \/ \E w \in Workers : spawn_Popen(w)
    \/ \E w \in Workers : spawn_write_text(w)
    \/ \E p \in Pids : atexit_cleanup(p)
    \/ \E p \in Pids : Crash(p)
    \/ \E p \in Pids : Reap(p)
    \/ \E p \in Pids : main_run_auth(p)
    \/ \E p \in Pids, cleanup \in BOOLEAN : main_wait_auth(p, cleanup)
    \/ \E p \in Pids : wait_for_lock(p)
    \/ \E p \in Pids : main_run_index(p)
    \/ \E p \in Pids, cleanup \in BOOLEAN : main_wait_index(p, cleanup)
    \/ \E p \in Pids : main_return(p)
    \/ \E p \in Pids, cleanup \in BOOLEAN : orphan_exit(p, cleanup)

(***************************************************************************)
(* Lease engine and expiry sweeper.  The sources of the repository hold no *)
(* code for them: the definitions below follow sections 4.1 and 4.2 of the *)
(* design document.  A block record is (status, holder, lease_expiry);     *)
(* last_mutated and asset_ref, which no transition predicate reads, and    *)
(* the broadcast that follows a committed write are left out.  The store   *)
(* serialises conditional writes per key: each is one step.  What an       *)
(* operation returns is fixed by the branch it takes: HolderConflict when  *)
(* Reserve_scan leaves the caller idle, NotAvailable / NotHeldByCaller     *)
(* when a conditional write leaves the record as it was.  Callers always   *)
(* name a holder.  The clock counts units of 60,000 ms.                    *)
(***************************************************************************)
Absent == [status |-> "absent", holder |-> NoHolder, lease_expiry |-> NoLease]

NoGrant == [holder |-> NoHolder, lease_expiry |-> NoLease]

NoArg == [block |-> 0, holder |-> NoHolder]

NoSweep == [now |-> NoLease, count |-> 0]

\* the record is reserved under a lease that is in the past at time t
Expired(r, t) ==
    r.status = "reserved" /\ r.lease_expiry # NoLease /\ r.lease_expiry < t

\* Reserve (a): the blocks other than `block` currently held by `holder`
\* with an unexpired or absent lease
HeldElsewhere(block, holder, t) ==
    {b \in Blocks \ {block} :
        /\ rec[b].status = "reserved"
        /\ rec[b].holder = holder
        /\ ~Expired(rec[b], t)}

\* Reserve (b): the transition predicate of the conditional write
Reservable(r, t) ==
    \/ r.status = "absent"
    \/ r.status = "available"
    \/ Expired(r, t)

\* Reserve (c): the record the conditional write stores
Reserved(holder, wantsLease, t) ==
    [status |-> "reserved", holder |-> holder,
     lease_expiry |-> IF wantsLease THEN t + HOLD_DURATION ELSE NoLease]

\* SweepExpired: the records its scan returns
SweepScan(t) == {b \in Blocks : Expired(rec[b], t)}

released_holder_only(r) == [r EXCEPT !.holder = NoHolder]

\* the record Release and the sweeper store: status = available, holder and
\* lease fields cleared
Released(r) ==
    [r EXCEPT !.status = "available", !.holder = NoHolder,
              !.lease_expiry = NoLease]

\* the leases of g whose window is still open at time t
OpenAt(g, t) ==
    [b \in Blocks |-> IF g[b].lease_expiry < t THEN NoGrant ELSE g[b]]

InitLease ==
    /\ rec = [b \in Blocks |-> Absent]
    /\ now = 0
    /\ rpc = [c \in Callers |-> "idle"]
    /\ rarg = [c \in Callers |-> NoArg]
    /\ sweepPc = "idle"
    /\ sweepNow = 0
    /\ sweepTodo = {}
    /\ sweepCount = 0
    /\ grant = [b \in Blocks |-> NoGrant]
    /\ sweepClean = FALSE
    /\ lastSweep = NoSweep
    /\ prevSweep = NoSweep

\* the clock advances
Tick ==
    /\ now < MaxTime
    /\ now' = now + 1
    /\ grant' = OpenAt(grant, now + 1)
    /\ UNCHANGED <<rec, rpc, rarg, sweepPc, sweepNow, sweepTodo, sweepCount,
                   sweepClean, lastSweep, prevSweep>>
    /\ UNCHANGED otherThanLease

\* Reserve(blockID, holder, wantsLease), precondition (a): the scan for
\* another block of the holder; HolderConflict without any write if found
Reserve_scan(c, block, holder) ==
    /\ rpc[c] = "idle"
    /\ IF HeldElsewhere(block, holder, now) # {}
       THEN UNCHANGED <<rpc, rarg>>
       ELSE /\ rpc' = [rpc EXCEPT ![c] = "write"]
            /\ rarg' = [rarg EXCEPT ![c] = [block |-> block, holder |-> holder]]
    /\ UNCHANGED <<rec, now, sweepPc, sweepNow, sweepTodo, sweepCount, grant,
                   sweepClean, lastSweep, prevSweep>>
    /\ UNCHANGED otherThanLease

\* Reserve, (b) and (c): the conditional write; NotAvailable if the store
\* rejects it.  wantsLease is read here for the first time
Reserve_write(c, wantsLease) ==
    /\ rpc[c] = "write"
    /\ LET a == rarg[c]
           ok == Reservable(rec[a.block], now)
           new == Reserved(a.holder, wantsLease, now)
       IN
        /\ rec' = IF ok THEN [rec EXCEPT ![a.block] = new] ELSE rec
        /\ grant' = IF ok
                    THEN [grant EXCEPT ![a.block] =
                            IF wantsLease
                            THEN [holder |-> a.holder,
                                  lease_expiry |-> new.lease_expiry]
                            ELSE NoGrant]
                    ELSE grant
        /\ sweepClean' = IF ok THEN FALSE ELSE sweepClean
        /\ lastSweep' = IF ok THEN NoSweep ELSE lastSweep
        /\ prevSweep' = IF ok THEN NoSweep ELSE prevSweep
    /\ rpc' = [rpc EXCEPT ![c] = "idle"]
    /\ rarg' = [rarg EXCEPT ![c] = NoArg]
    /\ UNCHANGED <<now, sweepPc, sweepNow, sweepTodo, sweepCount>>
    /\ UNCHANGED otherThanLease

\* Release(blockID, holder): one conditional write; NotHeldByCaller if the
\* record is not reserved by the caller
Release(block, holder) ==
    /\ LET ok == rec[block].status = "reserved" /\ rec[block].holder = holder
       IN
        /\ rec' = IF ok THEN [rec EXCEPT ![block] = Released(rec[block])] ELSE rec
        /\ grant' = IF ok THEN [grant EXCEPT ![block] = NoGrant] ELSE grant
    /\ UNCHANGED <<now, rpc, rarg, sweepPc, sweepNow, sweepTodo, sweepCount,
                   sweepClean, lastSweep, prevSweep>>
    /\ UNCHANGED otherThanLease

\* Patch(blockID, newStatus): unconditional overwrite with an administrative
\* status; a record that leaves "reserved" has no holder and no lease
Patch(block, newStatus) ==
    /\ rec' = [rec EXCEPT ![block] =
                 [status |-> newStatus, holder |-> NoHolder,
                  lease_expiry |-> NoLease]]
    /\ grant' = [grant EXCEPT ![block] = NoGrant]
    /\ UNCHANGED <<now, rpc, rarg, sweepPc, sweepNow, sweepTodo, sweepCount,
                   sweepClean, lastSweep, prevSweep>>
    /\ UNCHANGED otherThanLease

\* SweepExpired(now): the scan
SweepExpired_scan ==
    /\ sweepPc = "idle"
    /\ sweepPc' = "reclaim"
    /\ sweepNow' = now
    /\ sweepTodo' = SweepScan(now)
    /\ sweepCount' = 0
    /\ sweepClean' = TRUE
    /\ prevSweep' = lastSweep
    /\ lastSweep' = NoSweep
    /\ UNCHANGED <<rec, now, rpc, rarg, grant>>
    /\ UNCHANGED otherThanLease

\* SweepExpired: the conditional write for one scanned record, keyed only on
\* status = reserved; a rejected write is swallowed
SweepExpired_reclaim(block) ==
    /\ sweepPc = "reclaim"
    /\ block \in sweepTodo
    /\ LET ok == rec[block].status = "reserved" IN
        /\ rec' = IF ok THEN [rec EXCEPT ![block] = Released(rec[block])] ELSE rec
        /\ sweepCount' = IF ok THEN sweepCount + 1 ELSE sweepCount
    /\ sweepTodo' = sweepTodo \ {block}
    /\ UNCHANGED <<now, rpc, rarg, sweepPc, sweepNow, grant, sweepClean,
                   lastSweep, prevSweep>>
    /\ UNCHANGED otherThanLease

\* SweepExpired returns its count
SweepExpired_return ==
    /\ sweepPc = "reclaim"
    /\ sweepTodo = {}
    /\ sweepPc' = "idle"
    /\ lastSweep' = IF sweepClean THEN [now |-> sweepNow, count |-> sweepCount]
                    ELSE NoSweep
    /\ prevSweep' = IF sweepClean THEN prevSweep ELSE NoSweep
    /\ sweepNow' = 0
    /\ sweepCount' = 0
    /\ sweepClean' = FALSE
    /\ UNCHANGED <<rec, now, rpc, rarg, sweepTodo, grant>>
    /\ UNCHANGED otherThanLease

NextLease ==
    \/ Tick
    \/ \E c \in Callers, block \in Blocks, holder \in Holders :
          Reserve_scan(c, block, holder)
    \/ \E c \in Callers, wantsLease \in BOOLEAN : Reserve_write(c, wantsLease)
    \/ \E block \in Blocks, holder \in Holders : Release(block, holder)
    \/ \E block \in Blocks, newStatus \in {"available", "minted"} :
          Patch(block, newStatus)
    \/ SweepExpired_scan
    \/ \E block \in Blocks : SweepExpired_reclaim(block)
    \/ SweepExpired_return

(***************************************************************************)
(* Bulk queue of app.py: POST /api/bulk/enqueue and POST /api/bulk/clear   *)
(* on the table bulkInscribeQueue1, keyed by block_number.  A row is kept  *)
(* by its status; payload and delegate are functions of the block.  Every  *)
(* call of the table (put_item, scan, delete_item) is one step.            *)
(***************************************************************************)
\* elements a request may carry in "blocks", as the JSON text of each
BlockInputs == {"830500", "830501", "830500.0", "abc"}

\* the block_number values of the table
QueueKeys == {830500, 830501}

\* Decimal(str(b)) does not parse
InvalidOperation == 0

\* a key without a row
NoRow == "none"

Statuses == {"pending", "done", "error"}

\* the "status" lists a bulk_clear request may carry
StatusSets == {{"done", "error"}, {"pending"}}

\* Decimal(str(b)): the number a DynamoDB number key compares by
Decimal_str(b) ==
    IF b \in {"830500", "830500.0"} THEN 830500
    ELSE IF b = "830501" THEN 830501
    ELSE InvalidOperation

\* the "blocks" lists of at most n elements
BlockLists(n) == UNION {[1..k -> BlockInputs] : k \in 0..n}

IdleBulk == [pc |-> "idle", blocks |-> <<>>, added |-> 0, created |-> 0,
             sts |-> {}, items |-> {}, deleted |-> 0, removed |-> 0]

put_item_unconditional(q, key) == [ok |-> TRUE, q |-> [q EXCEPT ![key] = "pending"]]

\* BULK_TABLE.put_item(Item = {..., "status": "pending"},
\*     ConditionExpression = "attribute_not_exists(block_number)")
\* ok = FALSE stands for ConditionalCheckFailedException
put_item(q, key) ==
    IF q[key] = NoRow
    THEN [ok |-> TRUE, q |-> [q EXCEPT ![key] = "pending"]]
    ELSE [ok |-> FALSE, q |-> q]

InitBulk ==
    /\ queue \in [QueueKeys -> Statuses \cup {NoRow}]
    /\ bw = [w \in Workers |-> IdleBulk]
    /\ bev = NoEv

\* bulk_enqueue: blocks = request.get_json()["blocks"]; added = 0
bulk_enqueue(w, blocks) ==
    /\ bw[w].pc = "idle"
    /\ bw' = [bw EXCEPT ![w] = [IdleBulk EXCEPT !.pc = "put", !.blocks = blocks]]
    /\ bev' = NoEv
    /\ UNCHANGED queue
    /\ UNCHANGED otherThanBulk

\* bulk_enqueue, one turn of "for b in blocks": the conditional put_item;
\* added += 1 unless it raises ConditionalCheckFailedException (duplicate).
\* Decimal(str(b)) raising is not caught: the request ends with a 500
bulk_enqueue_put_item(w) ==
    /\ bw[w].pc = "put"
    /\ bw[w].blocks # <<>>
    /\ LET b == Head(bw[w].blocks)
           key == Decimal_str(b)
       IN IF key = InvalidOperation
          THEN /\ bw' = [bw EXCEPT ![w] = IdleBulk]
               /\ bev' = [op |-> "bulk_enqueue", w |-> w, code |-> 500]
               /\ UNCHANGED queue
          ELSE LET r == put_item(queue, key) IN
               /\ queue' = r.q
               /\ bw' = [bw EXCEPT ![w].blocks = Tail(@),
                                   ![w].added = IF r.ok THEN @ + 1 ELSE @,
                                   ![w].created =
                                       IF queue[key] = NoRow /\ r.q[key] # NoRow
                                       THEN @ + 1 ELSE @]
               /\ bev' = [op |-> "put_item", w |-> w, key |-> key,
                          before |-> queue[key], added |-> bw[w].added]
    /\ UNCHANGED otherThanBulk

\* bulk_enqueue: return {"added": added}
bulk_enqueue_return(w) ==
    /\ bw[w].pc = "put"
    /\ bw[w].blocks = <<>>
    /\ bw' = [bw EXCEPT ![w] = IdleBulk]
    /\ bev' = [op |-> "bulk_enqueue", w |-> w, code |-> 200,
               added |-> bw[w].added, created |-> bw[w].created]
    /\ UNCHANGED queue
    /\ UNCHANGED otherThanBulk

\* bulk_clear: sts = set(request status list);
\* scan = BULK_TABLE.scan(FilterExpression = Attr("status").is_in(sts))
bulk_clear_scan(w, sts) ==
    /\ bw[w].pc = "idle"
    /\ LET items == {k \in QueueKeys : queue[k] \in sts} IN
       bw' = [bw EXCEPT ![w] = [IdleBulk EXCEPT !.pc = "delete", !.sts = sts,
                                   !.items = items,
                                   !.deleted = Cardinality(items)]]
    /\ bev' = NoEv
    /\ UNCHANGED queue
    /\ UNCHANGED otherThanBulk

\* bulk_clear, one turn of "for it in scan.get('Items', [])":
\* BULK_TABLE.delete_item(Key = {"block_number": it["block_number"]})
bulk_clear_delete_item(w, key) ==
    /\ bw[w].pc = "delete"
    /\ key \in bw[w].items
    /\ queue' = [queue EXCEPT ![key] = NoRow]
    /\ bw' = [bw EXCEPT ![w].items = @ \ {key},
                        ![w].removed = IF queue[key] # NoRow THEN @ + 1 ELSE @]
    /\ bev' = [op |-> "delete_item", w |-> w, key |-> key,
               status |-> queue[key], sts |-> bw[w].sts]
    /\ UNCHANGED otherThanBulk

\* bulk_clear: return {"deleted": len(scan.get("Items", []))}
bulk_clear_return(w) ==
    /\ bw[w].pc = "delete"
    /\ bw[w].items = {}
    /\ bw' = [bw EXCEPT ![w] = IdleBulk]
    /\ bev' = [op |-> "bulk_clear", w |-> w, deleted |-> bw[w].deleted,
               removed |-> bw[w].removed]
    /\ UNCHANGED queue
    /\ UNCHANGED otherThanBulk

NextBulk ==
    \/ \E w \in Workers, blocks \in BlockLists(MaxBlocks) : bulk_enqueue(w, blocks)
    \/ \E w \in Workers : bulk_enqueue_put_item(w)
    \/ \E w \in Workers : bulk_enqueue_return(w)
    \/ \E w \in Workers, sts \in StatusSets : bulk_clear_scan(w, sts)
    \/ \E w \in Workers, key \in QueueKeys : bulk_clear_delete_item(w, key)
    \/ \E w \in Workers : bulk_clear_return(w)

(***************************************************************************)
(* Inscription owner lookup of app.py: GET /api/inscription/<iid>/owner.   *)
(* _owner_cached is wrapped in functools.lru_cache: a value it returned    *)
(* (None included) is served from the cache from then on, an exception it  *)
(* raised is not cached.                                                   *)
(***************************************************************************)
Iids == {"i0", "i1"}

\* Python's None, and the cache entry that does not exist
None == "None"
Miss == "miss"

\* values of the "address" and "owner" keys of the JSON Hiro answers with
Addresses == {"bc1pa", "bc1pb"}
Fields == Addresses \cup {None, ""}

\* what requests.get(url, timeout=15).json() evaluates to: the two keys of
\* the JSON (None for a key it lacks), or raises when the request or the
\* JSON decoding raises
Upstream ==
    [raises : {FALSE}, address : Fields, owner : Fields]
        \cup {[raises |-> TRUE, address |-> None, owner |-> None]}

\* Python truthiness of a str-or-None value
Truthy(v) == v \notin {None, ""}

\* data.get("address") or data.get("owner")
address_or_owner(data) ==
    IF Truthy(data.address) THEN data.address ELSE data.owner

IdleOwner == [pc |-> "idle", iid |-> "", raised |-> FALSE, owner |-> None]

\* the try block of inscription_owner, given what _owner_cached did:
\* the value returned, or the exception that leaves the block
try_block(raised, owner) ==
    IF raised THEN [exc |-> "RequestException", code |-> 0]
    ELSE IF ~Truthy(owner) THEN [exc |-> "NotFound", code |-> 404]
    ELSE [exc |-> "", code |-> 200]

\* "except Exception as e: abort(502, ...)": werkzeug's NotFound, which
\* abort(404) raises, is an Exception as well
except_Exception(t) ==
    IF t.exc # "" THEN 502 ELSE t.code

InitOwner ==
    /\ ownerCache = [i \in Iids |-> Miss]
    /\ ow = [w \in Workers |-> IdleOwner]
    /\ oev = NoEv

\* a request arrives: inscription_owner(iid) enters its try block
inscription_owner(w, iid) ==
    /\ ow[w].pc = "idle"
    /\ ow' = [ow EXCEPT ![w] = [IdleOwner EXCEPT !.pc = "lookup", !.iid = iid]]
    /\ oev' = NoEv
    /\ UNCHANGED ownerCache
    /\ UNCHANGED otherThanOwner

\* owner = _owner_cached(iid): served from the cache, or fetched from Hiro
\* (data) and cached unless the fetch raises
_owner_cached(w, data) ==
    /\ ow[w].pc = "lookup"
    /\ LET iid == ow[w].iid IN
       IF ownerCache[iid] # Miss
       THEN /\ ow' = [ow EXCEPT ![w].pc = "respond",
                                ![w].owner = ownerCache[iid]]
            /\ UNCHANGED ownerCache
       ELSE IF data.raises
       THEN /\ ow' = [ow EXCEPT ![w].pc = "respond", ![w].raised = TRUE]
            /\ UNCHANGED ownerCache
       ELSE /\ ow' = [ow EXCEPT ![w].pc = "respond",
                                ![w].owner = address_or_owner(data)]
            /\ ownerCache' = [ownerCache EXCEPT ![iid] = address_or_owner(data)]
    /\ oev' = NoEv
    /\ UNCHANGED otherThanOwner

\* the rest of inscription_owner: abort(404) if not owner, return the owner,
\* and the except clause
inscription_owner_respond(w) ==
    /\ ow[w].pc = "respond"
    /\ oev' = [op |-> "inscription_owner", iid |-> ow[w].iid,
               raised |-> ow[w].raised, owner |-> ow[w].owner,
               code |-> except_Exception(try_block(ow[w].raised, ow[w].owner))]
    /\ ow' = [ow EXCEPT ![w] = IdleOwner]
    /\ UNCHANGED ownerCache
    /\ UNCHANGED otherThanOwner

NextOwner ==
    \/ \E w \in Workers, iid \in Iids : inscription_owner(w, iid)
    \/ \E w \in Workers, data \in Upstream : _owner_cached(w, data)
    \/ \E w \in Workers : inscription_owner_respond(w)

(***************************************************************************)
(* blockWatcher.py: main() polls the chain tip and, for every new height   *)
(* whose block meets criteria(), inserts a row (put_row), announces it and *)
(* saves the height.  Heights count from the height the watcher started    *)
(* at.  A row is kept by its status and by whether the enrichment job has  *)
(* added authParent to it.  An exception anywhere in the body of the loop  *)
(* is caught by main()'s "except Exception", which goes on to the next     *)
(* poll with `last` as it was.                                             *)
(***************************************************************************)
NoItem == [status |-> "none", authParent |-> FALSE]

\* the "bits" of the block at each height, as block_json returns it
bits(h) == IF h % 2 = 1 THEN "17038b5a" ELSE "1703a30c"

\* criteria(block): "8b" in block.get("bits", "")
criteria(h) == bits(h) \in {"17038b5a"}

\* the Item put_row writes
Item == [status |-> "available", authParent |-> FALSE]

\* announce(b): the POST is inside try / except Exception, so both outcomes
\* return to main(), which goes on to save_last
announce_unguarded(posted) == IF posted THEN "save" ELSE "tip"

announce(posted) == "save"

InitWatcher ==
    /\ chain = 0
    /\ table = [h \in Heights |-> NoItem]
    /\ STATE_FILE = 0
    /\ bwat = [pc |-> "tip", last |-> 0, tip |-> 0, h |-> 0, put |-> 0]
    /\ wev = NoEv

\* a block is mined
new_block ==
    /\ chain < MaxHeight
    /\ chain' = chain + 1
    /\ wev' = NoEv
    /\ UNCHANGED <<table, STATE_FILE, bwat>>
    /\ UNCHANGED otherThanWatcher

\* authLooperBackend.py: update_item SET authParent on a row of the table
update_item_authParent(h) ==
    /\ table[h] # NoItem
    /\ ~table[h].authParent
    /\ table' = [table EXCEPT ![h].authParent = TRUE]
    /\ wev' = NoEv
    /\ UNCHANGED <<chain, STATE_FILE, bwat>>
    /\ UNCHANGED otherThanWatcher

\* the watcher is started again: last = load_last() reads STATE_FILE
load_last ==
    /\ bwat' = [pc |-> "tip", last |-> STATE_FILE, tip |-> 0, h |-> 0, put |-> 0]
    /\ bwat' # bwat
    /\ wev' = NoEv
    /\ UNCHANGED <<chain, table, STATE_FILE>>
    /\ UNCHANGED otherThanWatcher

\* tip = tip_height(); if tip > last: for h in range(last + 1, tip + 1)
main_tip_height(ok) ==
    /\ bwat.pc = "tip"
    /\ bwat' = IF ok /\ chain > bwat.last
               THEN [bwat EXCEPT !.pc = "fetch", !.tip = chain,
                                 !.h = bwat.last + 1, !.put = 0]
               ELSE [bwat EXCEPT !.tip = IF ok THEN chain ELSE @, !.h = 0,
                                 !.put = 0]
    /\ bwat' # bwat
    /\ wev' = NoEv
    /\ UNCHANGED <<chain, table, STATE_FILE>>
    /\ UNCHANGED otherThanWatcher

\* blk = block_json(h); if criteria(blk): ...
main_block_json(ok) ==
    /\ bwat.pc = "fetch"
    /\ bwat' = [bwat EXCEPT !.pc = IF ~ok THEN "tip"
                                   ELSE IF criteria(bwat.h) THEN "put"
                                   ELSE "save"]
    /\ wev' = NoEv
    /\ UNCHANGED <<chain, table, STATE_FILE>>
    /\ UNCHANGED otherThanWatcher

\* put_row(blk): table.put_item(Item = {...}), with no condition
put_row(ok) ==
    /\ bwat.pc = "put"
    /\ table' = IF ok THEN [table EXCEPT ![bwat.h] = Item] ELSE table
    /\ bwat' = [bwat EXCEPT !.pc = IF ok THEN "announce" ELSE "tip",
                            !.put = IF ok THEN bwat.h ELSE @]
    /\ wev' = [op |-> "put_row", h |-> bwat.h, ok |-> ok,
               before |-> table[bwat.h]]
    /\ UNCHANGED <<chain, STATE_FILE>>
    /\ UNCHANGED otherThanWatcher

\* announce(blk): posted = FALSE when requests.post raises (refused,
\* timeout after 2 s)
main_announce(posted) ==
    /\ bwat.pc = "announce"
    /\ bwat' = [bwat EXCEPT !.pc = announce(posted)]
    /\ wev' = [op |-> "announce", h |-> bwat.h, posted |-> posted,
               put |-> bwat.put, before |-> table[bwat.h]]
    /\ UNCHANGED <<chain, table, STATE_FILE>>
    /\ UNCHANGED otherThanWatcher

\* save_last(h), the next turn of the for loop, and "last = tip" after it
save_last ==
    /\ bwat.pc = "save"
    /\ STATE_FILE' = bwat.h
    /\ bwat' = IF bwat.h < bwat.tip
               THEN [bwat EXCEPT !.pc = "fetch", !.h = bwat.h + 1, !.put = 0]
               ELSE [bwat EXCEPT !.pc = "tip", !.last = bwat.tip, !.h = 0,
                                 !.put = 0]
    /\ wev' = [op |-> "save_last", h |-> bwat.h]
    /\ UNCHANGED <<chain, table>>
    /\ UNCHANGED otherThanWatcher

NextWatcher ==
    \/ new_block
    \/ \E h \in Heights : update_item_authParent(h)
    \/ load_last
    \/ \E ok \in BOOLEAN : main_tip_height(ok)
    \/ \E ok \in BOOLEAN : main_block_json(ok)
    \/ \E ok \in BOOLEAN : put_row(ok)
    \/ \E posted \in BOOLEAN : main_announce(posted)
    \/ save_last

\* no row in the bulk queue
InitQueueEmpty == InitBulk /\ queue = [k \in QueueKeys |-> NoRow]

Init == InitGuard /\ InitLease /\ InitQueueEmpty /\ InitOwner /\ InitWatcher

\* any prior contents of the bulk queue
InitAnyQueue == InitGuard /\ InitLease /\ InitBulk /\ InitOwner /\ InitWatcher

SpecGuard == Init /\ [][NextGuard]_vars

\* every statement of a handler or of a job that can run does run; requests,
\* kills and the reaping of zombies are not owed
FairGuard ==
    /\ \A w \in Workers : WF_vars(spawn_Popen(w)) /\ WF_vars(spawn_write_text(w))
    /\ \A p \in Pids :
        /\ WF_vars(atexit_cleanup(p))
        /\ WF_vars(main_run_auth(p))
        /\ WF_vars(\E cleanup \in BOOLEAN : main_wait_auth(p, cleanup))
        /\ WF_vars(wait_for_lock(p))
        /\ WF_vars(main_run_index(p))
        /\ WF_vars(\E cleanup \in BOOLEAN : main_wait_index(p, cleanup))
        /\ WF_vars(main_return(p))

SpecGuardFair == SpecGuard /\ FairGuard

SpecLease == Init /\ [][NextLease]_vars

SpecBulk == InitAnyQueue /\ [][NextBulk]_vars

SpecOwner == Init /\ [][NextOwner]_vars

SpecWatcher == Init /\ [][NextWatcher]_vars

(***************************************************************************)
(* Properties of the job guard                                             *)
(***************************************************************************)
\* the jobs of a lock that _spawn started and that are alive
AliveInstances(lock) ==
    {p \in Pids : pstate[p] = "running" /\ pscript[p] = ScriptOf(lock)}

\* C1: for every lock file, at most one instance of its job spawned by
\* _spawn is alive at any time, under any interleaving of start requests.
C1_AtMostOneInstance ==
    \A lock \in Locks : Cardinality(AliveInstances(lock)) <= 1

\* the last step was _running finding a marker that names pid state `found`
GuardFound(found) ==
    /\ ev.op = "_running"
    /\ ev.pid # NoFile
    /\ ev.found = found

C3_DeadMarkerIsRecovered ==
    /\ GuardFound("reaped") =>
          /\ ~ev.ret
          /\ marker[ev.lock] = NoFile
          /\ wpc[ev.w] = "popen"
          /\ wlock[ev.w] = ev.lock
    /\ ev.op = "Popen" =>
          /\ pstate[ev.pid] = "running"
          /\ pscript[ev.pid] = ScriptOf(ev.lock)
          /\ wpc[ev.w] = "write"
          /\ wpid[ev.w] = ev.pid
          /\ wlock[ev.w] = ev.lock
    /\ ev.op = "write_text" =>
          /\ marker[ev.lock] = ev.pid
          /\ pstate[ev.pid] # "unused"
          /\ ev.status = "started"
          /\ wpc[ev.w] = "idle"

C3_Witness == GuardFound("reaped") /\ wpc[ev.w] = "popen"

\* C4: when the marker names a pid that is still in the process table as a
\* zombie, _running answers as for a dead process: it returns False and
\* deletes the marker, and the request goes on to start the job.
C4_ZombieMarkerIsStale ==
    GuardFound("zombie") =>
        /\ ~ev.ret
        /\ marker[ev.lock] = NoFile
        /\ wpc[ev.w] = "popen"
        /\ wlock[ev.w] = ev.lock

C4_Witness == GuardFound("zombie") /\ wpc[ev.w] = "popen"

\* C5: when the marker names a live, non-zombie process and reading its
\* status fails, _running returns True and keeps the marker.
C5_LookupFailureIsBusy ==
    (GuardFound("running") /\ ~ev.readable) =>
        /\ ev.ret
        /\ marker[ev.lock] = ev.pid

\* C6: once a job that _spawn started has exited normally, the marker file
\* it was started under is absent.
C6_ExitRemovesMarker ==
    ev.op = "exit" => marker[LockOf(ev.script)] = NoFile

(***************************************************************************)
(* Claims about the lease engine and the sweeper                           *)
(***************************************************************************)
\* C7: once H1's leased reservation of block B has committed, a reservation
\* of B by another holder H2 whose conditional write runs while H1's lease
\* window is still open (now < lease_expiry, the block neither released nor
\* patched) is rejected: the write leaves B's record as it was.
C7_OpenLeaseExcludesOthers ==
    [][\A c \in Callers :
        (/\ rpc[c] = "write"
         /\ rpc'[c] = "idle"
         /\ grant[rarg[c].block].holder \notin {NoHolder, rarg[c].holder}
         /\ now < grant[rarg[c].block].lease_expiry)
        => rec'[rarg[c].block] = rec[rarg[c].block]]_vars

\* C8: a leased reservation committed at t0 (lease_expiry = t0 + T) is among
\* the records every SweepExpired(now) with now >= t0 + T scans and reclaims,
\* now = t0 + T included, and no SweepExpired(now) with now < t0 + T reclaims
\* it.
C8_LeaseBoundary ==
    [][/\ (sweepPc = "idle" /\ sweepPc' = "reclaim") =>
            \A b \in Blocks :
                (/\ rec[b].status = "reserved"
                 /\ rec[b].lease_expiry # NoLease
                 /\ rec[b].lease_expiry <= sweepNow') => b \in sweepTodo'
       /\ \A b \in Blocks :
            (/\ sweepCount' = sweepCount + 1
             /\ b \in sweepTodo \ sweepTodo'
             /\ rec[b].lease_expiry # NoLease) => rec[b].lease_expiry <= sweepNow
      ]_vars

\* C9: after a leased reservation of B1 by holder H has committed, and while
\* its lease has not expired (now < lease_expiry, B1 neither released nor
\* patched), a later Reserve(B2, H) with B2 # B1 does not pass the holder
\* scan: it fails with HolderConflict and never reaches its write.
C9_HolderExclusive ==
    [][\A c \in Callers :
        (rpc[c] = "idle" /\ rpc'[c] = "write") =>
            \A b \in Blocks \ {rarg'[c].block} :
                ~(/\ grant[b].holder = rarg'[c].holder
                  /\ now < grant[b].lease_expiry)]_vars

\* C10: a SweepExpired(now) during which no reservation commits leaves no
\* reserved record whose lease expired before now; and when the sweep before
\* it was called with the same now, with no reservation committed since that
\* one began, it reclaims zero records (so it writes none).
C10_SweepIdempotent ==
    /\ lastSweep # NoSweep =>
          \A b \in Blocks : ~Expired(rec[b], lastSweep.now)
    /\ (/\ lastSweep # NoSweep
        /\ prevSweep # NoSweep
        /\ prevSweep.now = lastSweep.now) => lastSweep.count = 0

\* the second of two sweeps with the same now has returned, after a first
\* one that reclaimed a lapsed lease
C10_Witness ==
    /\ lastSweep # NoSweep
    /\ prevSweep # NoSweep
    /\ prevSweep.now = lastSweep.now
    /\ prevSweep.count > 0

(***************************************************************************)
(* Claims about the bulk queue                                             *)
(***************************************************************************)
\* C11: a put_item of bulk_enqueue for a block_number that already has a row
\* (from before the request, or from an earlier element of the same list)
\* leaves the row with the status it had and does not count; one for a
\* block_number without a row creates the pending row and counts one; and
\* the "added" a request returns is the number of rows it created.
C11_EnqueueIgnoresDuplicates ==
    /\ bev.op = "put_item" =>
          IF bev.before # NoRow
          THEN queue[bev.key] = bev.before /\ bw[bev.w].added = bev.added
          ELSE queue[bev.key] = "pending" /\ bw[bev.w].added = bev.added + 1
    /\ (bev.op = "bulk_enqueue" /\ bev.code = 200) => bev.added = bev.created

\* a put_item has found the row of its block already processed
C11_Witness == bev.op = "put_item" /\ bev.before = "done"

\* C12: every delete_item of bulk_clear that removes a row removes one whose
\* status, at that moment, is in the status set of the request, and the
\* "deleted" a request returns is the number of rows it removed.
C12_ClearOnlyRequested ==
    /\ (bev.op = "delete_item" /\ bev.status # NoRow) => bev.status \in bev.sts
    /\ bev.op = "bulk_clear" => bev.deleted = bev.removed

(***************************************************************************)
(* Claims about the inscription owner lookup                               *)
(***************************************************************************)
\* C13: the lookup answers 200 when _owner_cached returned an owner, 404
\* when it returned none (None or an empty string), and 502 only when it
\* raised.
C13_OwnerOutcomes ==
    oev.op = "inscription_owner" =>
        /\ (~oev.raised /\ Truthy(oev.owner)) => oev.code = 200
        /\ (~oev.raised /\ ~Truthy(oev.owner)) => oev.code = 404
        /\ oev.code = 502 => oev.raised

(***************************************************************************)
(* Claims about the block watcher                                          *)
(***************************************************************************)
\* C14: a put_row for a height that already has a row leaves the row as it
\* was: its status and the authParent the enrichment job added are kept.
C14_PutRowIdempotent ==
    (wev.op = "put_row" /\ wev.ok /\ wev.before # NoItem) =>
        table[wev.h] = wev.before

\* C17: announce is reached only after put_row has returned for the same
\* height; and whether the POST went through or raised, the row is as
\* put_row left it, the watcher goes on to save_last for that height, and
\* save_last records the height and moves to the next height or poll.
C17_AnnounceNeverGates ==
    /\ bwat.pc = "announce" => (bwat.put = bwat.h /\ table[bwat.h] # NoItem)
    /\ wev.op = "announce" =>
          /\ wev.put = wev.h
          /\ table[wev.h] = wev.before
          /\ bwat.pc = "save"
          /\ bwat.h = wev.h
    /\ wev.op = "save_last" =>
          /\ STATE_FILE = wev.h
          /\ \/ bwat.pc = "fetch" /\ bwat.h = wev.h + 1
             \/ bwat.pc = "tip" /\ bwat.last = wev.h

\* an announce has failed
C17_Witness == wev.op = "announce" /\ ~wev.posted

(***************************************************************************)
(* Claims about run_both.py                                                *)
(***************************************************************************)
\* C15: when a run_both process starts its indexLooper child, the
\* authLooperBackend child it started has ended and /tmp/authscript.lock
\* does not exist.
C15_IndexAfterAuth ==
    [][\A p \in Pids :
        (rbpc[p] = "run_index" /\ rbpc'[p] = "wait_index") =>
            /\ rbchild[p] = "none"
            /\ marker[AUTH_LOCK] = NoFile]_vars

\* C16: when p.wait() returns in a run_both process, /tmp/authscript.lock
\* does not exist; and a run_both process that waits in
\* wait_for_lock(AUTH_LOCK) eventually starts its indexLooper child, unless
\* it is killed first.
C16_WaitForLockTerminates ==
    /\ [][\A p \in Pids :
            (rbpc[p] = "wait_auth" /\ rbpc'[p] = "wait_for_lock") =>
                marker'[AUTH_LOCK] = NoFile]_vars
    /\ \A p \in Pids :
            (rbpc[p] = "wait_for_lock" /\ pstate[p] = "running")
                ~> (rbpc[p] = "wait_index" \/ pstate[p] # "running")

====
